---- MODULE Spec2Model ----
(***************************************************************************)
(* The browser page of src/mulberry_audio.py: the script of the audio      *)
(* component (lines 219-413), as the state machine the page's event loop   *)
(* runs.  Two click handlers (playTone, playCMajorScale), the timer        *)
(* callbacks they arm with setTimeout, the voices (oscillator + gain node) *)
(* they create, and the status element.                                    *)
(*                                                                         *)
(* Units.  Time is in milliseconds; the audio clock                        *)
(* (audioContext.currentTime) and the timer clock are the same clock.      *)
(* Gain is in hundredths (100 = 1.0), the step of the sustain slider; a    *)
(* gain inside a ramp is the exact rational num/den.  Frequencies are in   *)
(* hundredths of a hertz (26163 = 261.63 Hz).                              *)
(*                                                                         *)
(* Time advances from one instant at which something can happen to the     *)
(* next one (a timer falls due, a ramp reaches its end point, an           *)
(* oscillator stops, the user may click); nothing changes in between.      *)
(***************************************************************************)
EXTENDS Integers, Sequences, FiniteSets, TLC

VARIABLES
    cfg,           \* the template parameters of the page (lines 225-230)
    now,           \* the clock, in ms
    audioContext,  \* the global of line 222: "null" or "running"
    ctxCreated,    \* how many AudioContext objects have been constructed
    status,        \* the #status element: its textContent and its 'active' class
    timers,        \* the pending setTimeout callbacks, in registration order
    voices,        \* the oscillator/gain pairs that have not stopped yet
    nvoices,       \* how many voices have been created
    reqs,          \* the clicks so far: kind, time, notes triggered for it
    lastNote       \* the scale note triggered last

vars == <<cfg, now, audioContext, ctxCreated, status, timers, voices, nvoices,
          reqs, lastNote>>

(***************************************************************************)
(* Bounds of the model.                                                    *)
(***************************************************************************)
\* How many times the user clicks a button.
MaxClicks == 2
\* How many ms after its due time the event loop may run a timer callback.
MaxLate == 0

\* The instants at which the user may click.
PressTimes == {0, 700, 1600}

(***************************************************************************)
(* Program constants.                                                      *)
(***************************************************************************)
\* gainNode.gain of 1.0, in hundredths (line 286).
FullVolume == 100
\* The hold at sustain level of a single tone, 0.5 s (line 277).
ToneHoldMs == 500
\* The 500 ms added to both status-hide delays (lines 310 and 353).
HideSlackMs == 500
\* noteDuration = 0.3 s of the scale (line 336).
ScaleNoteMs == 300
\* quickAttack = 0.01 s (line 374), quickRelease = 0.05 s (line 375).
QuickAttackMs == 10
QuickReleaseMs == 50
\* The peak 0.5 of a scale note, in hundredths (lines 378-379).
ScalePeak == 50

\* cMajorScale (lines 324-333) and noteNames (line 335).
cMajorScale == <<26163, 29366, 32963, 34923, 39200, 44000, 49388, 52325>>
noteNames == <<"C4", "D4", "E4", "F4", "G4", "A4", "B4", "C5">>

(***************************************************************************)
(* The sidebar sliders (lines 36-91) in the model's units.                 *)
(***************************************************************************)
Waveforms == {"sine", "square", "sawtooth", "triangle"}

Config(f, w, a, d, s, r) ==
    [frequency |-> f, waveform |-> w, attack |-> a, decay |-> d,
     sustain |-> s, release |-> r]

\* Is c a setting the sliders can produce?
InSliderDomain(c) ==
    /\ c.frequency \in 20000..80000 /\ c.frequency % 100 = 0
    /\ c.waveform \in Waveforms
    /\ c.attack \in 10..2000 /\ c.attack % 10 = 0
    /\ c.decay \in 10..2000 /\ c.decay % 10 = 0
    /\ c.sustain \in 0..100
    /\ c.release \in 10..3000 /\ c.release % 10 = 0

\* The slider defaults (value= of lines 40, 49, 61, 70, 79, 88).
DefaultConfig == Config(44000, "sine", 100, 200, 50, 300)

\* The settings of the interleaving specification.
Configs ==
    {DefaultConfig, Config(20000, "square", 10, 10, 0, 10)}

\* The settings of the envelope specification: the ends and the default of
\* every slider of the envelope.
EnvConfigs ==
    {Config(fw[1], fw[2], a, d, s, r) :
        fw \in {<<44000, "sine">>, <<20000, "square">>},
        a \in {10, 100, 2000}, d \in {10, 200, 2000},
        s \in {0, 50, 100}, r \in {10, 300, 3000}}

(***************************************************************************)
(* The status element (lines 392-408).                                     *)
(***************************************************************************)
ShowStatus(st, message) == [text |-> message, active |-> TRUE]

UpdateStatus(st, message) ==
    IF st.active THEN [st EXCEPT !.text = message] ELSE st

HideStatus(st) == [st EXCEPT !.active = FALSE]

(***************************************************************************)
(* The status messages.  The script is the body of a Python f-string, in   *)
(* which {{ and }} stand for a brace each: the browser receives            *)
(* `Playing {noteName} ({freq.toFixed(2)}Hz)`, a template literal with no  *)
(* ${...} substitution, whose value is its own text.                       *)
(***************************************************************************)
ToneStatusText(c) == "Playing {frequency}Hz {waveform} tone with ADSR envelope"

NoteStatusText(noteName, freq) == "Playing {noteName} ({freq.toFixed(2)}Hz)"

ScaleStatusText == "Playing C-Major scale..."

ContextStatusText == "Audio context initialized"

(***************************************************************************)
(* initAudioContext (lines 236-246): the context is constructed when the   *)
(* global is null, and the status says so.  A context constructed in a     *)
(* click handler is running; resume() of a running context does nothing.   *)
(***************************************************************************)
\* A variant that constructs a context at every call.
InitAudioContext_Always(ctx, created, st) ==
    [audioContext |-> "running", created |-> created + 1,
     status |-> ShowStatus(st, ContextStatusText)]

InitAudioContext(ctx, created, st) ==
    IF ctx = "null"
    THEN [audioContext |-> "running", created |-> created + 1,
          status |-> ShowStatus(st, ContextStatusText)]
    ELSE [audioContext |-> ctx, created |-> created, status |-> st]

(***************************************************************************)
(* The envelope of a single tone (lines 277-302), scheduled at time t.     *)
(***************************************************************************)
Event(time, value) == [time |-> time, value |-> value]

\* A variant whose hold at sustain level is attack + decay + 0.5 s.
ToneNoteDuration_LongHold(c) ==
    c.attack + c.decay + (c.attack + c.decay + ToneHoldMs)

ToneNoteDuration(c) == c.attack + c.decay + ToneHoldMs

\* A variant whose attack ramps to 2.0.
ToneRamp_Overshoot(c, t) ==
    << Event(t, 0),
       Event(t + c.attack, 2 * FullVolume),
       Event(t + c.attack + c.decay, c.sustain),
       Event(t + ToneNoteDuration(c), c.sustain),
       Event(t + ToneNoteDuration(c) + c.release, 0) >>

ToneRamp(c, t) ==
    << Event(t, 0),
       Event(t + c.attack, FullVolume),
       Event(t + c.attack + c.decay, c.sustain),
       Event(t + ToneNoteDuration(c), c.sustain),
       Event(t + ToneNoteDuration(c) + c.release, 0) >>

\* A variant that stops the oscillator where the release begins.
ToneStop_NoRelease(c, t) == t + ToneNoteDuration(c)

ToneStop(c, t) == t + ToneNoteDuration(c) + c.release

(***************************************************************************)
(* The envelope of a scale note (lines 374-383), scheduled at time t.      *)
(***************************************************************************)
\* A variant that holds a scale note at the slider's sustain level.
ScaleRamp_SliderSustain(t, duration) ==
    << Event(t, 0),
       Event(t + QuickAttackMs, cfg.sustain),
       Event(t + duration - QuickReleaseMs, cfg.sustain),
       Event(t + duration, 0) >>

ScaleRamp(t, duration) ==
    << Event(t, 0),
       Event(t + QuickAttackMs, ScalePeak),
       Event(t + duration - QuickReleaseMs, ScalePeak),
       Event(t + duration, 0) >>

\* A variant that stops the oscillator where the quick release begins.
ScaleStop_Early(t, duration) == t + duration - QuickReleaseMs

ScaleStop(t, duration) == t + duration

(***************************************************************************)
(* The delays handed to setTimeout, whose argument is converted to a       *)
(* whole number of ms by truncation.  The products are IEEE-754 doubles:   *)
(* 3 * 0.3 * 1000 is 899.9999999999999 and 6 * 0.3 * 1000 is               *)
(* 1799.9999999999998; the other six products and 8 * 0.3 * 1000 + 500     *)
(* are whole.                                                              *)
(***************************************************************************)
ScaleDelayMs(index) ==
    IF index \in {3, 6} THEN index * ScaleNoteMs - 1 ELSE index * ScaleNoteMs

ScaleHideDelayMs == Len(cMajorScale) * ScaleNoteMs + HideSlackMs

\* (noteDuration + release) * 1000 + 500 of line 310 falls short of the whole
\* number for these (attack, decay, release) among the settings above.
ShortSums ==
    {<<10, 2000, 10>>, <<10, 2000, 300>>, <<2000, 10, 10>>, <<2000, 10, 300>>}

ToneHideDelayMs(c) ==
    ToneNoteDuration(c) + c.release + HideSlackMs
        - (IF <<c.attack, c.decay, c.release>> \in ShortSums THEN 1 ELSE 0)

(***************************************************************************)
(* The value of an AudioParam at time t, given its automation events       *)
(* (setValueAtTime first, then linearRampToValueAtTime): linear between    *)
(* two events, the last value after the last event, the default 1 before   *)
(* the first.  The result is the fraction num/den, in hundredths.          *)
(***************************************************************************)
GainAt(ramp, t) ==
    IF t < ramp[1].time
    THEN [num |-> FullVolume, den |-> 1]
    ELSE IF t >= ramp[Len(ramp)].time
    THEN [num |-> ramp[Len(ramp)].value, den |-> 1]
    ELSE LET k == CHOOSE i \in 1..(Len(ramp) - 1) :
                      ramp[i].time <= t /\ t < ramp[i + 1].time
             a == ramp[k]
             b == ramp[k + 1]
         IN [num |-> a.value * (b.time - t) + b.value * (t - a.time),
             den |-> b.time - a.time]

\* Is the gain g the value `hundredths'?
GainIs(g, hundredths) == g.num = hundredths * g.den

\* g <= h, for two gains.
GainLeq(g, h) == g.num * h.den <= h.num * g.den

(***************************************************************************)
(* Timers.                                                                 *)
(***************************************************************************)
NoteTimer(due, req, index) ==
    [kind |-> "note", due |-> due, req |-> req, index |-> index,
     freq |-> cMajorScale[index + 1], duration |-> ScaleNoteMs,
     noteName |-> noteNames[index + 1]]

HideTimer(due, req) ==
    [kind |-> "hide", due |-> due, req |-> req, index |-> -1,
     freq |-> 0, duration |-> 0, noteName |-> ""]

\* The callbacks playCMajorScale arms at time t (lines 341-353).
ScaleTimers(t, req) ==
    [i \in 1..Len(cMajorScale) |-> NoteTimer(t + ScaleDelayMs(i - 1), req, i - 1)]
        \o << HideTimer(t + ScaleHideDelayMs, req) >>

\* The event loop runs the pending callback that is due first, and of two
\* due at the same time the one registered first.
IsNext(i) ==
    \A j \in 1..Len(timers) :
        \/ timers[j].due > timers[i].due
        \/ timers[j].due = timers[i].due /\ j >= i

Remove(s, i) == SubSeq(s, 1, i - 1) \o SubSeq(s, i + 1, Len(s))

(***************************************************************************)
(* The initial state: the page is loaded with some settings.               *)
(***************************************************************************)
NoNote == [req |-> 0, index |-> -1, noteName |-> "", freq |-> 0, at |-> 0, stop |-> 0]

InitWith(settings) ==
    /\ cfg \in settings
    /\ InSliderDomain(cfg)
    /\ now = 0
    /\ audioContext = "null"
    /\ ctxCreated = 0
    /\ status = [text |-> "", active |-> FALSE]
    /\ timers = << >>
    /\ voices = {}
    /\ nvoices = 0
    /\ reqs = << >>
    /\ lastNote = NoNote

Init == InitWith(Configs)

(***************************************************************************)
(* playTone (lines 257-311).                                               *)
(***************************************************************************)
PlayTone ==
    /\ Len(reqs) < MaxClicks
    /\ now \in PressTimes
    /\ LET ctx == InitAudioContext(audioContext, ctxCreated, status)
           req == Len(reqs) + 1
           v == [id |-> nvoices + 1, req |-> req, index |-> -1,
                 freq |-> cfg.frequency, type |-> cfg.waveform,
                 start |-> now, stop |-> ToneStop(cfg, now),
                 ramp |-> ToneRamp(cfg, now)]
       IN /\ audioContext' = ctx.audioContext
          /\ ctxCreated' = ctx.created
          /\ voices' = voices \cup {v}
          /\ nvoices' = nvoices + 1
          /\ status' = ShowStatus(ctx.status, ToneStatusText(cfg))
          /\ timers' = Append(timers, HideTimer(now + ToneHideDelayMs(cfg), req))
          /\ reqs' = Append(reqs, [kind |-> "tone", at |-> now, notes |-> 0])
    /\ UNCHANGED <<cfg, now, lastNote>>

(***************************************************************************)
(* playCMajorScale (lines 318-354).                                        *)
(***************************************************************************)
PlayCMajorScale ==
    /\ Len(reqs) < MaxClicks
    /\ now \in PressTimes
    /\ LET ctx == InitAudioContext(audioContext, ctxCreated, status)
           req == Len(reqs) + 1
       IN /\ audioContext' = ctx.audioContext
          /\ ctxCreated' = ctx.created
          /\ status' = ShowStatus(ctx.status, ScaleStatusText)
          /\ timers' = timers \o ScaleTimers(now, req)
          /\ reqs' = Append(reqs, [kind |-> "scale", at |-> now, notes |-> 0])
    /\ UNCHANGED <<cfg, now, voices, nvoices, lastNote>>

(***************************************************************************)
(* A note callback of lines 344-346 runs: playNoteInScale (lines 360-387). *)
(* Reading currentTime of a null audioContext throws, and the callback     *)
(* ends there.                                                             *)
(***************************************************************************)
FireNote ==
    \E i \in 1..Len(timers) :
        /\ IsNext(i)
        /\ timers[i].kind = "note"
        /\ timers[i].due <= now
        /\ timers' = Remove(timers, i)
        /\ LET t == timers[i]
               v == [id |-> nvoices + 1, req |-> t.req, index |-> t.index,
                     freq |-> t.freq, type |-> cfg.waveform,
                     start |-> now, stop |-> ScaleStop(now, t.duration),
                     ramp |-> ScaleRamp(now, t.duration)]
           IN IF audioContext = "null"
              THEN UNCHANGED <<voices, nvoices, status, reqs, lastNote>>
              ELSE /\ voices' = voices \cup {v}
                   /\ nvoices' = nvoices + 1
                   /\ status' = UpdateStatus(status, NoteStatusText(t.noteName, t.freq))
                   /\ reqs' = [reqs EXCEPT ![t.req].notes = @ + 1]
                   /\ lastNote' = [req |-> t.req, index |-> t.index,
                                   noteName |-> t.noteName, freq |-> t.freq,
                                   at |-> now, stop |-> v.stop]
        /\ UNCHANGED <<cfg, now, audioContext, ctxCreated>>

(***************************************************************************)
(* A hide callback (lines 308-310, 351-353) runs: hideStatus.              *)
(***************************************************************************)
FireHide ==
    \E i \in 1..Len(timers) :
        /\ IsNext(i)
        /\ timers[i].kind = "hide"
        /\ timers[i].due <= now
        /\ timers' = Remove(timers, i)
        /\ status' = HideStatus(status)
        /\ UNCHANGED <<cfg, now, audioContext, ctxCreated, voices, nvoices,
                       reqs, lastNote>>

(***************************************************************************)
(* oscillator.stop(when) (lines 302, 383): the audio engine stops the      *)
(* oscillator when the clock reaches `when'; the voice is Done.            *)
(***************************************************************************)
OscillatorEnded ==
    \E v \in voices :
        /\ v.stop <= now
        /\ voices' = voices \ {v}
        /\ UNCHANGED <<cfg, now, audioContext, ctxCreated, status, timers,
                       nvoices, reqs, lastNote>>

(***************************************************************************)
(* Time passes, to the next instant at which something can happen.  A      *)
(* timer callback runs at most MaxLate ms after it is due, and an          *)
(* oscillator stops at its stop time.                                      *)
(***************************************************************************)
Instants ==
    UNION { {timers[i].due + k : k \in 0..MaxLate} : i \in 1..Len(timers) }
      \cup UNION { {v.ramp[k].time : k \in 1..Len(v.ramp)} \cup {v.stop} : v \in voices }
      \cup (IF Len(reqs) < MaxClicks THEN PressTimes ELSE {})

Future == {t \in Instants : t > now}

Advance ==
    /\ Future # {}
    /\ \A i \in 1..Len(timers) : now < timers[i].due + MaxLate
    /\ \A v \in voices : now < v.stop
    /\ now' = CHOOSE t \in Future : \A u \in Future : t <= u
    /\ UNCHANGED <<cfg, audioContext, ctxCreated, status, timers, voices,
                   nvoices, reqs, lastNote>>

Next ==
    \/ PlayTone
    \/ PlayCMajorScale
    \/ FireNote
    \/ FireHide
    \/ OscillatorEnded
    \/ Advance

Spec == Init /\ [][Next]_vars

(***************************************************************************)
(* The page with a platform that keeps going: the clock advances, the      *)
(* event loop runs the callbacks that are due and the audio engine stops   *)
(* the oscillators whose stop time has come.  The user need not click.     *)
(***************************************************************************)
FairSpec ==
    /\ Spec
    /\ WF_vars(Advance)
    /\ WF_vars(FireNote)
    /\ WF_vars(FireHide)
    /\ WF_vars(OscillatorEnded)

(***************************************************************************)
(* The envelope specification: the page is loaded with any of EnvConfigs   *)
(* and the user clicks one button, once.                                   *)
(***************************************************************************)
EnvInit == InitWith(EnvConfigs)

EnvNext ==
    \/ reqs = << >> /\ PlayTone
    \/ reqs = << >> /\ PlayCMajorScale
    \/ FireNote
    \/ FireHide
    \/ OscillatorEnded
    \/ Advance

EnvSpec == EnvInit /\ [][EnvNext]_vars

(***************************************************************************)
(* Vocabulary of the properties.                                           *)
(***************************************************************************)
ToneVoices == {v \in voices : v.index = -1}

ScaleVoices == {v \in voices : v.index >= 0}

\* The voices that are sounding now: started, and not yet at their stop time.
Sounding == {v \in voices : v.start <= now /\ now < v.stop}

\* The pending note callbacks of request r.
PendingNotes(r) ==
    {i \in 1..Len(timers) : timers[i].kind = "note" /\ timers[i].req = r}

\* f, in hundredths, with two decimals: "261.63".
ToFixed2(f) ==
    ToString(f \div 100) \o "."
        \o (IF f % 100 < 10 THEN "0" ELSE "") \o ToString(f % 100)

\* The label of a note: its name and its frequency.
NoteLabel(noteName, freq) ==
    "Playing " \o noteName \o " (" \o ToFixed2(freq) \o "Hz)"

(***************************************************************************)
(* C2.  A single tone sounds for exactly attack + decay + 0.5 s + release  *)
(* from its start; its gain is 0 at the start, 1.0 at the end of the       *)
(* attack, the sustain level at the end of the decay and still at          *)
(* attack + decay + 0.5 s, and 0 at the end (1.1 s in all with the slider  *)
(* defaults).                                                              *)
(***************************************************************************)
C2_ToneEnvelope ==
    \A v \in ToneVoices :
        LET s == v.start
            A == cfg.attack
            D == cfg.decay
        IN /\ v.stop - s = A + D + 500 + cfg.release
           /\ now <= v.stop
           /\ GainIs(GainAt(v.ramp, s), 0)
           /\ GainIs(GainAt(v.ramp, s + A), 100)
           /\ GainIs(GainAt(v.ramp, s + A + D), cfg.sustain)
           /\ GainIs(GainAt(v.ramp, s + A + D + 500), cfg.sustain)
           /\ GainIs(GainAt(v.ramp, v.stop), 0)
           /\ cfg = DefaultConfig => v.stop - s = 1100

\* A tone with the longest attack, decay and release has sounded to its end.
C2_Witness ==
    \E v \in ToneVoices :
        /\ now = v.stop
        /\ cfg.attack = 2000 /\ cfg.decay = 2000 /\ cfg.release = 3000
        /\ cfg.sustain = 50

(***************************************************************************)
(* C3, as stated.  The Sustain stage of a single tone, from the end of the *)
(* decay ramp to the start of the release ramp, lasts                      *)
(* attack + decay + 0.5 s.                                                 *)
(***************************************************************************)
C3_HoldIsAttackDecayHalf ==
    \A v \in ToneVoices :
        v.ramp[4].time - v.ramp[3].time = cfg.attack + cfg.decay + 500

(***************************************************************************)
(* C3, amended.  The Sustain stage of a single tone lasts exactly 0.5 s,   *)
(* during which the gain is the sustain level; attack + decay + 0.5 s is   *)
(* the time from the start of the tone to the start of its release.        *)
(***************************************************************************)
C3_HoldIsHalfSecond ==
    \A v \in ToneVoices :
        /\ v.ramp[3].time = v.start + cfg.attack + cfg.decay
        /\ v.ramp[4].time - v.ramp[3].time = 500
        /\ v.ramp[4].time - v.start = cfg.attack + cfg.decay + 500
        /\ v.start = now =>
              \A t \in v.ramp[3].time .. v.ramp[4].time :
                  GainIs(GainAt(v.ramp, t), cfg.sustain)

\* A tone whose attack and decay are not zero is in its release.
C3_Witness ==
    \E v \in ToneVoices :
        /\ cfg.attack + cfg.decay >= 300
        /\ now = v.ramp[4].time

(***************************************************************************)
(* C4.  A scale note has a fixed envelope, whatever the sliders say: gain  *)
(* 0 at its start, 0.5 after 0.01 s, 0.5 until 0.25 s, 0 at 0.3 s, where   *)
(* it stops; its peak is 0.5.  Its frequency is that of the scale table    *)
(* and its waveform the configured one.                                    *)
(***************************************************************************)
C4_ScaleEnvelope ==
    \A v \in ScaleVoices :
        LET s == v.start
        IN /\ v.stop = s + 300
           /\ GainIs(GainAt(v.ramp, s), 0)
           /\ GainIs(GainAt(v.ramp, s + 10), 50)
           /\ GainIs(GainAt(v.ramp, s + 250), 50)
           /\ GainIs(GainAt(v.ramp, s + 300), 0)
           /\ v.freq = cMajorScale[v.index + 1]
           /\ v.type = cfg.waveform
           /\ v.start = now =>
                 \A t \in s .. v.stop :
                     LET g == GainAt(v.ramp, t)
                     IN /\ g.num <= 50 * g.den
                        /\ t \in (s + 10) .. (s + 250) => GainIs(g, 50)
                        /\ t \in (s + 1) .. (s + 299) => ~GainIs(g, 0)

\* The last note of a scale has sounded to its end, with sliders far from
\* the values of the quick envelope.
C4_Witness ==
    \E v \in ScaleVoices :
        /\ v.index = 7
        /\ now = v.stop
        /\ cfg.attack = 2000 /\ cfg.decay = 2000 /\ cfg.sustain = 100
        /\ cfg.release = 3000 /\ cfg.frequency = 20000

(***************************************************************************)
(* C6.  The gain of every voice is in [0, 1] at every ms of its lifetime;  *)
(* it does not decrease during the attack (the first ramp) and does not    *)
(* increase afterwards (decay, hold, release).                             *)
(***************************************************************************)
C6_GainBoundedMonotone ==
    \A v \in voices :
        v.start = now =>
            \A t \in v.start .. v.stop :
                LET g == GainAt(v.ramp, t)
                    h == GainAt(v.ramp, t + 1)
                IN /\ g.den > 0
                   /\ 0 <= g.num
                   /\ g.num <= 100 * g.den
                   /\ t < v.ramp[2].time => GainLeq(g, h)
                   /\ (v.ramp[2].time <= t /\ t < v.stop) => GainLeq(h, g)

\* A voice starts, with the sliders at their ends.
C6_Witness ==
    /\ \E v \in voices : v.start = now
    /\ cfg.attack = 2000 /\ cfg.decay = 10 /\ cfg.sustain = 100
    /\ cfg.release = 3000

(***************************************************************************)
(* C1.  For a playCMajorScale request the eight notes are triggered once   *)
(* each, in index order, note i with the i-th frequency of the table and   *)
(* exactly i * 0.3 s after the request; the last note ends 2.4 s after     *)
(* the request.                                                            *)
(***************************************************************************)
C1_ScaleSchedule ==
    /\ lastNote # NoNote =>
          LET r == reqs[lastNote.req]
          IN /\ lastNote.index = r.notes - 1
             /\ lastNote.freq = cMajorScale[lastNote.index + 1]
             /\ lastNote.at = r.at + lastNote.index * 300
             /\ lastNote.index = 7 => lastNote.stop = r.at + 2400
    /\ \A r \in 1..Len(reqs) :
          (reqs[r].kind = "scale" /\ PendingNotes(r) = {}) => reqs[r].notes = 8

(***************************************************************************)
(* C5.  Whenever a scale note is triggered, the status text is the label   *)
(* of that note: its name and its frequency.                               *)
(***************************************************************************)
C5_StatusShowsNote ==
    [][nvoices' > nvoices /\ lastNote'.at = now' /\ Len(reqs') = Len(reqs)
          => status'.text = NoteLabel(lastNote'.noteName, lastNote'.freq)]_vars

(***************************************************************************)
(* C7.  Within one playCMajorScale request, and no other request, at no    *)
(* instant are two voices sounding together: a note is triggered only      *)
(* when the stop time of the note before it has been reached.              *)
(***************************************************************************)
C7_ScaleNotesDoNotOverlap ==
    (Len(reqs) = 1 /\ reqs[1].kind = "scale") => Cardinality(Sounding) <= 1

(***************************************************************************)
(* C8.  Every voice reaches Done and stays there: its oscillator stops at  *)
(* the instant its last ramp, the release, reaches gain 0, neither before  *)
(* (while the gain is above 0) nor after; no voice outlives its stop       *)
(* time, a voice that has stopped is never a voice again, and in the end   *)
(* every voice that was started has stopped.                               *)
(***************************************************************************)
VoiceStopsAtReleaseEnd ==
    \A v \in voices :
        LET last == v.ramp[Len(v.ramp)]
        IN /\ v.stop = last.time
           /\ last.value = 0
           /\ GainIs(GainAt(v.ramp, v.stop), 0)
           /\ \A k \in 1..(Len(v.ramp) - 1) : v.ramp[k].time < v.stop
           /\ v.start < v.stop
           /\ now <= v.stop
           /\ v.id <= nvoices

\* C8: every voice stops where its release ends, a stopped voice never
\* returns, and in the end every started voice has stopped.
C8_VoicesReachDone ==
    /\ []VoiceStopsAtReleaseEnd
    /\ [][\A v \in voices' : v \in voices \/ v.id > nvoices]_vars
    /\ <>[](voices = {})

\* A tone and the eight notes of a scale have all been started and have all
\* stopped.
C8_Witness ==
    /\ nvoices >= 9
    /\ voices = {}
    /\ timers = << >>

(***************************************************************************)
(* C9.  The status is active whenever a voice is sounding, and inactive    *)
(* once every timer has fired.                                             *)
(***************************************************************************)
C9_StatusTracksSound ==
    /\ Sounding # {} => status.active
    /\ timers = << >> => ~status.active

(***************************************************************************)
(* C10.  The audio context is constructed at most once and never becomes   *)
(* null again; it is not null when a voice is created, so every note       *)
(* callback finds the context its request initialised and creates its      *)
(* voice.                                                                  *)
(***************************************************************************)
C10_OneAudioContext ==
    /\ ctxCreated <= 1
    /\ ctxCreated = 1 <=> audioContext # "null"
    /\ reqs # << >> => audioContext # "null"
    /\ nvoices > 0 => audioContext # "null"
    /\ timers # << >> => audioContext # "null"
    /\ \A r \in 1..Len(reqs) :
          reqs[r].kind = "scale" =>
              reqs[r].notes + Cardinality(PendingNotes(r)) = 8

\* Two requests have been served by the one context, the second a scale
\* whose last note has been triggered.
C10_Witness ==
    /\ Len(reqs) = 2
    /\ ctxCreated = 1
    /\ reqs[2].kind = "scale"
    /\ reqs[2].notes = 8

====
